---- MODULE Spec2Model ----
(***************************************************************************)
(* A model of the Wikidata access layer (questionanswering/                *)
(* wikidata_access.py) and of the evaluation loop of QAModel.test          *)
(* (questionanswering/models/qamodel.py).                                  *)
(*                                                                         *)
(* Text.  A Python string that holds SPARQL is modelled as a sequence of   *)
(* tokens, the pieces between blanks.  A token is a sequence of strings:   *)
(* a variable ?xyz is the sequence of its characters <<"?","x","y","z">>,  *)
(* every other token is cut into one or a few pieces.  The character "?"   *)
(* occurs in the templates only as the first character of a variable, and  *)
(* every pattern the code replaces starts with "?" or is a whole slot      *)
(* (%restriction%, %labelright%, %queryvariables%), so str.replace acts on *)
(* the prefix of a token: the match is replaced and the rest of the token  *)
(* stays glued to the replacement.                                         *)
(***************************************************************************)
EXTENDS Integers, Sequences, FiniteSets, TLC

VARIABLES
    \* graph_to_query / get_free_variables
    g, return_var_values, passes, query, free_flags, free_variables, pcC,
    \* query_wikidata
    endpoint, sparql_query, pcQ, arg, response, ret,
    \* load_entity_map / map_query_results
    map_file, entity_map, query_results, answers, pcM,
    \* QAModel.test
    scores, predicted_indices, qi, sorted_indices, retrieved_answers, gsel,
    asked, evaluated, successes, avg_metrics, pcT

varsC == <<g, return_var_values, passes, query, free_flags, free_variables, pcC>>
varsQ == <<endpoint, sparql_query, pcQ, arg, response, ret>>
varsM == <<map_file, entity_map, query_results, answers, pcM>>
varsT == <<scores, predicted_indices, qi, sorted_indices, retrieved_answers, gsel,
           asked, evaluated, successes, avg_metrics, pcT>>
vars == <<varsC, varsQ, varsM, varsT>>

(***************************************************************************)
(* Bounds of the model.                                                    *)
(***************************************************************************)
MaxEdges == 2
MaxRows == 2
MaxCells == 2
MaxLines == 2
MaxAnswers == 2
MaxQuestions == 2
MaxCandidates == 2

(***************************************************************************)
(* Tokens and str.replace.                                                 *)
(***************************************************************************)
Lit(s) == <<s>>
IsVar(tok) == Len(tok) >= 2 /\ tok[1] = "?"

Digit == <<"0", "1", "2", "3", "4", "5", "6", "7", "8", "9">>

\* str(i) for an edge index, as the sequence of its decimal digits.
Str(i) == IF i < 10 THEN <<Digit[i + 1]>> ELSE <<Digit[(i \div 10) + 1], Digit[(i % 10) + 1]>>

StartsWith(tok, pat) == Len(tok) >= Len(pat) /\ SubSeq(tok, 1, Len(pat)) = pat

\* What replacing pat by the text rep does to one token.
ReplaceTok(tok, pat, rep) ==
    IF ~StartsWith(tok, pat) THEN <<tok>>
    ELSE LET rest == SubSeq(tok, Len(pat) + 1, Len(tok))
         IN  IF rest = <<>> THEN rep
             ELSE IF rep = <<>> THEN <<rest>>
             ELSE SubSeq(rep, 1, Len(rep) - 1) \o <<rep[Len(rep)] \o rest>>

RECURSIVE JoinRange(_, _, _)
JoinRange(texts, lo, hi) ==
    IF lo > hi THEN <<>>
    ELSE IF lo = hi THEN texts[lo]
    ELSE LET mid == (lo + hi) \div 2
         IN  JoinRange(texts, lo, mid) \o JoinRange(texts, mid + 1, hi)

\* " ".join(list of texts): the texts one after the other
Join(texts) == JoinRange(texts, 1, Len(texts))

\* text.replace(pat, rep)
Replace(text, pat, rep) == Join([k \in 1..Len(text) |-> ReplaceTok(text[k], pat, rep)])

(***************************************************************************)
(* The template registry.                                                  *)
(***************************************************************************)
vE1 == <<"?", "e", "1">>
vE2 == <<"?", "e", "2">>
vP == <<"?", "p">>
vM == <<"?", "m">>
vR == <<"?", "r">>
vN == <<"?", "n">>
vA == <<"?", "a">>
vHopup == <<"?", "h", "o", "p", "u", "p">>
vHopups == vHopup \o <<"s">>
vHopupv == vHopup \o <<"v">>
vLabelpredicate == <<"?", "l", "a", "b", "e", "l", "p", "r", "e", "d", "i", "c", "a", "t", "e">>

GLOBAL_RESULT_LIMIT == 1000

GraphStatements == <<Lit("{GRAPH"), Lit("<http://wikidata.org/statements>"), Lit("{")>>

sparql_prefix ==
    << Lit("PREFIX"), Lit("e:<http://www.wikidata.org/entity/>"),
       Lit("PREFIX"), Lit("rdfs:<http://www.w3.org/2000/01/rdf-schema#>"),
       Lit("PREFIX"), Lit("skos:<http://www.w3.org/2004/02/skos/core#>"),
       Lit("PREFIX"), Lit("base:<http://www.wikidata.org/ontology#>") >>

sparql_select == <<Lit("SELECT"), Lit("DISTINCT"), Lit("%queryvariables%"), Lit("WHERE")>>

RelationTypes == <<"direct", "reverse", "v-structure">>

sparql_relation(type) ==
    CASE type = "direct" ->
           GraphStatements \o <<vE1, vP, vM, Lit("."), vM, vR \o <<"d">>, vE2, Lit("."),
                                Lit("%restriction%"), Lit("}}")>>
      [] type = "reverse" ->
           GraphStatements \o <<vE2, vP, vM, Lit("."), vM, vR \o <<"r">>, vE1, Lit("."),
                                Lit("%restriction%"), Lit("}}")>>
      [] type = "v-structure" ->
           GraphStatements \o <<vM, vP, vE2, Lit("."), vM, vR \o <<"v">>, vE1, Lit("."),
                                Lit("%restriction%"), Lit("}}")>>

sparql_relation_complex ==
    <<Lit("{")>>
    \o GraphStatements \o <<vE1, vP, vM, Lit("."), vM, vR \o <<"d">>, vE2, Lit("."), Lit("}}")>>
    \o <<Lit("UNION")>>
    \o GraphStatements \o <<vE2, vP, vM, Lit("."), vM, vR \o <<"r">>, vE1, Lit("."), Lit("}}")>>
    \o <<Lit("UNION")>>
    \o GraphStatements \o <<vM, vP, vE2, Lit("."), vM, vR \o <<"v">>, vE1, Lit("."), Lit("}}}")>>

sparql_entity_label ==
    << Lit("{"), Lit("VALUES"), vLabelpredicate, Lit("{rdfs:label"), Lit("skos:altLabel}"),
       Lit("GRAPH"), Lit("<http://wikidata.org/terms>"), Lit("{"), vE2, vLabelpredicate,
       Lit("\""), Lit("%labelright%"), Lit("\"@en"), Lit("}"),
       Lit("}"), Lit("FILTER"), Lit("NOT"), Lit("EXISTS"),
       Lit("{GRAPH"), Lit("<http://wikidata.org/instances>"), Lit("{"), vE2, Lit("rdf:type"),
       Lit("e:Q4167410"), Lit("}}") >>

sparql_relation_time_argmax == <<vM, vA, Lit("[base:time"), vN, Lit("].")>>

\* " ORDER BY {} LIMIT 1".format(terms)
sparql_close_order(terms) == <<Lit("ORDER"), Lit("BY")>> \o terms \o <<Lit("LIMIT"), Lit("1")>>

\* " LIMIT {}".format(GLOBAL_RESULT_LIMIT)
sparql_close == <<Lit("LIMIT"), Lit(ToString(GLOBAL_RESULT_LIMIT))>>

HOP_UP_RELATIONS == <<"P131", "P31", "P279", "P17", "P361">>

sparql_entity_abstract == <<Lit("["), vHopups, Lit("["), vHopupv, vE2, Lit("]]")>>

sparql_hopup_values ==
    <<Lit("VALUES"), Lit("("), vHopups, vHopupv, Lit(")"), Lit("{")>>
    \o Join([k \in 1..Len(HOP_UP_RELATIONS) |->
               <<Lit("("), <<"e:", HOP_UP_RELATIONS[k], "s">>,
                 <<"e:", HOP_UP_RELATIONS[k], "v">>, Lit(")")>>])
    \o <<Lit("}")>>

(***************************************************************************)
(* Graphs.  An edge is a function from the field names it carries; 'in     *)
(* edge' is membership in its domain.                                      *)
(***************************************************************************)
Has(edge, f) == f \in DOMAIN edge

NoField == [f \in {} |-> ""]

TypeOptions == {NoField} \cup {[type |-> RelationTypes[k]] : k \in 1..Len(RelationTypes)}
KbIDOptions == {NoField, [kbID |-> "P35v"]}
RightOptions == {[rightkbID |-> "Q155"], [right |-> <<"Missouri">>]}
\* hopUp absent, present and empty, present and bound to an abstraction relation
HopUpOptions == {NoField, [hopUp |-> <<>>], [hopUp |-> <<"P131", "v">>]}
ArgOptions == {NoField, [argmax |-> "time"], [argmin |-> "time"]}

Edges ==
    {t @@ k @@ r @@ h @@ a : t \in TypeOptions, k \in KbIDOptions, r \in RightOptions,
                              h \in HopUpOptions, a \in ArgOptions}

Graphs == UNION {[1..n -> Edges] : n \in 0..MaxEdges}

(***************************************************************************)
(* graph_to_query, one edge.  i is the edge's index from enumerate, from 0.*)
(***************************************************************************)
\* t[0] of a relation type
Initial(type) ==
    CASE type = "direct" -> "d" [] type = "reverse" -> "r" [] type = "v-structure" -> "v"

\* re.sub(r"\?r[drv]", rep, text) on one token
ReSubTok(tok, rep) ==
    IF StartsWith(tok, vR) /\ Len(tok) >= 3 /\ tok[3] \in {"d", "r", "v"}
    THEN <<rep \o SubSeq(tok, 4, Len(tok))>>
    ELSE <<tok>>

ReSub(text, rep) == Join([k \in 1..Len(text) |-> ReSubTok(text[k], rep)])

\* A faulty shape choice: the union of the three whatever the type
AlwaysUnion(edge) == sparql_relation_complex

\* lines 103-106: the fragment of the edge's type, or the union of the three
RelationShape(edge) ==
    IF Has(edge, "type") THEN sparql_relation(edge.type) ELSE sparql_relation_complex

\* lines 108-111: the bound relation, or the relation variables with the index
RelationIdentity(inst, edge, i) ==
    IF Has(edge, "kbID") THEN ReSub(inst, <<"e:", edge.kbID>>)
    ELSE Replace(inst, vR, <<vR \o Str(i)>>)

\* line 112 (and line 167): the relation variables of an edge without kbID
RelationVariables(edge, i) ==
    IF ~Has(edge, "type")
    THEN [k \in 1..Len(RelationTypes) |-> vR \o Str(i) \o <<Initial(RelationTypes[k])>>]
    ELSE <<vR \o Str(i) \o <<Initial(edge.type)>>>>

\* lines 114-120: the abstraction hop
HopUp(inst, edge) ==
    IF ~Has(edge, "hopUp") THEN inst
    ELSE LET abstract == Replace(inst, vE2, sparql_entity_abstract)
         IN  IF edge.hopUp # <<>>
             THEN Replace(Replace(abstract, vHopupv, <<<<"e:">> \o edge.hopUp>>),
                          vHopups,
                          <<<<"e:">> \o SubSeq(edge.hopUp, 1, Len(edge.hopUp) - 1) \o <<"s">>>>)
             ELSE sparql_hopup_values \o abstract

\* line 121
HopUpVariables(edge, i) ==
    IF Has(edge, "hopUp") /\ edge.hopUp = <<>> THEN <<vHopup \o Str(i) \o <<"v">>>> ELSE <<>>

HasArg(edge) == Has(edge, "argmax") \/ Has(edge, "argmin")

\* lines 123-129: the restriction slot
Restriction(inst, edge, i) ==
    IF HasArg(edge)
    THEN Replace(Replace(Replace(inst, Lit("%restriction%"), sparql_relation_time_argmax),
                         vN, <<vN \o Str(i)>>),
                 vA, <<vA \o Str(i)>>)
    ELSE Replace(inst, Lit("%restriction%"), <<>>)

\* A faulty order-by term: DESC for argmin too
AlwaysDesc(edge, i) ==
    IF HasArg(edge) THEN <<<<Lit("DESC("), vN \o Str(i), Lit(")")>>>> ELSE <<>>

\* line 127: the order-by term of the edge, as a list of zero or one term
OrderBy(edge, i) ==
    IF HasArg(edge)
    THEN <<<<Lit(IF Has(edge, "argmax") THEN "DESC(" ELSE "ASC("), vN \o Str(i), Lit(")")>>>>
    ELSE <<>>

\* lines 131-133
Namespace(inst, i) ==
    Replace(Replace(Replace(inst, vP, <<vP \o Str(i)>>), vM, <<vM \o Str(i)>>),
            vHopup, <<vHopup \o Str(i)>>)

\* lines 135-138, 144-145: the right-hand entity and the blank nodes
RightEntity(inst, edge, i) ==
    LET e2 == IF Has(edge, "rightkbID")
              THEN Replace(inst, vE2, <<<<"e:", edge.rightkbID>>>>)
              ELSE Replace(inst, vE2, <<vE2 \o Str(i)>>)
    IN  Replace(Replace(e2, Lit("_:m"), <<Lit("_:m") \o Str(i)>>),
                Lit("_:s"), <<Lit("_:s") \o Str(i)>>)

\* lines 139-143: the label lookup of an edge without rightkbID
EntityLabel(edge, i) ==
    IF Has(edge, "rightkbID") THEN <<>>
    ELSE LET right_label == [k \in 1..Len(edge.right) |-> Lit(edge.right[k])]
         IN  Replace(Replace(sparql_entity_label, vE2, <<vE2 \o Str(i)>>),
                     Lit("%labelright%"), right_label)

\* line 142
EntityVariables(edge, i) == IF Has(edge, "rightkbID") THEN <<>> ELSE <<vE2 \o Str(i)>>

\* The relation fragment of edge i as line 147 appends it.
RelationInst(edge, i) ==
    RightEntity(Namespace(Restriction(HopUp(RelationIdentity(RelationShape(edge), edge, i),
                                            edge), edge, i), i), edge, i)

\* Everything one pass of the loop appends to variables
EdgeVariables(edge, i) ==
    (IF Has(edge, "kbID") THEN <<>> ELSE RelationVariables(edge, i))
    \o HopUpVariables(edge, i) \o EntityVariables(edge, i)

\* lines 103-147: what one pass of the loop appends to query, variables and order_by
CompileEdge(edge, i) ==
    [label |-> EntityLabel(edge, i), relation |-> RelationInst(edge, i),
     variables |-> EdgeVariables(edge, i), order_by |-> OrderBy(edge, i)]

\* line 102: the passes of the loop over enumerate(g.get('edgeSet', []))
Loop(gr) == [k \in 1..Len(gr.edgeSet) |-> CompileEdge(gr.edgeSet[k], k - 1)]

(***************************************************************************)
(* graph_to_query and get_free_variables.                                  *)
(***************************************************************************)
\* lines 97-101 and 149-157 around the passes of the loop
Assemble(done, rvv) ==
    LET body == Join([k \in 1..Len(done) |-> done[k].label \o done[k].relation])
        variables == Join([k \in 1..Len(done) |-> done[k].variables])
                     \o (IF rvv THEN <<vE1>> ELSE <<>>)
        order_by == Join([k \in 1..Len(done) |-> done[k].order_by])
        open == sparql_prefix \o sparql_select \o <<Lit("{")>> \o body \o <<Lit("}")>>
    IN  Replace(open, Lit("%queryvariables%"), variables)
        \o (IF order_by # <<>> THEN sparql_close_order(Join(order_by)) ELSE sparql_close)

graph_to_query(gr, rvv) == Assemble(Loop(gr), rvv)

get_free_variables(gr, include_relations, include_entities, include_question_variable) ==
    LET edgeSet == gr.edgeSet
        of(edge, i) ==
            (IF include_relations /\ ~Has(edge, "kbID") THEN RelationVariables(edge, i) ELSE <<>>)
            \o (IF include_entities /\ ~Has(edge, "rightkbID") THEN <<vE2 \o Str(i)>> ELSE <<>>)
    IN  Join([k \in 1..Len(edgeSet) |-> of(edgeSet[k], k - 1)])
        \o (IF include_question_variable THEN <<vE1>> ELSE <<>>)

(***************************************************************************)
(* The compiler as a state machine: a caller compiles its graph and then   *)
(* asks for the graph's free variables.                                    *)
(***************************************************************************)
NoText == <<>>

InitC ==
    /\ g \in [edgeSet : Graphs]
    /\ return_var_values = FALSE
    /\ passes = <<>>
    /\ query = NoText
    /\ free_flags = [include_relations |-> TRUE, include_entities |-> TRUE,
                     include_question_variable |-> FALSE]
    /\ free_variables = <<>>
    /\ pcC = "start"

IdleC ==
    /\ g = [edgeSet |-> <<>>]
    /\ return_var_values = FALSE
    /\ passes = <<>>
    /\ query = NoText
    /\ free_flags = [include_relations |-> TRUE, include_entities |-> TRUE,
                     include_question_variable |-> FALSE]
    /\ free_variables = <<>>
    /\ pcC = "idle"

GraphToQuery ==
    /\ pcC = "start"
    /\ passes' = Loop(g)
    /\ \E rvv \in BOOLEAN :
          /\ return_var_values' = rvv
          /\ query' = Assemble(passes', rvv)
    /\ pcC' = "compiled"
    /\ UNCHANGED <<g, free_flags, free_variables>>
    /\ UNCHANGED <<varsQ, varsM, varsT>>

GetFreeVariables ==
    /\ pcC = "compiled"
    /\ \E ir \in BOOLEAN, ie \in BOOLEAN, iq \in BOOLEAN :
          /\ free_flags' = [include_relations |-> ir, include_entities |-> ie,
                            include_question_variable |-> iq]
          /\ free_variables' = get_free_variables(g, ir, ie, iq)
    /\ pcC' = "done"
    /\ UNCHANGED <<g, return_var_values, passes, query>>
    /\ UNCHANGED <<varsQ, varsM, varsT>>

(***************************************************************************)
(* query_wikidata.  The endpoint answers a query text with an exception    *)
(* (raised by sparql.query().convert()) or with a parsed JSON document, a  *)
(* dict that may lack "results", "bindings" or a cell's "value".  A string *)
(* value is the sequence of its pieces; a binding row is the sequence of   *)
(* its (variable, cell) items in the dict's iteration order.               *)
(***************************************************************************)
EntityPrefix == <<"http://www.wikidata.org/", "entity/">>

\* value.startswith("http://www.wikidata.org/entity/")
IsEntity(value) == StartsWith(value, EntityPrefix)

RECURSIVE RemoveAll(_, _)
\* value.replace(pat, ""): every occurrence of pat, found from the left, is dropped
RemoveAll(value, pat) ==
    IF Len(value) < Len(pat) THEN value
    ELSE IF StartsWith(value, pat) THEN RemoveAll(SubSeq(value, Len(pat) + 1, Len(value)), pat)
    ELSE <<Head(value)>> \o RemoveAll(Tail(value), pat)

Values ==
    { EntityPrefix \o <<"Q76">>,
      EntityPrefix \o <<"Q155">>,
      <<"Barack Obama">>,
      EntityPrefix \o EntityPrefix \o <<"Q76">>,
      EntityPrefix \o <<"http://www.wikidata.org/">> \o EntityPrefix \o <<"entity/", "Q76">> }

Cells == {[type |-> "uri"]} \cup {[type |-> "uri", value |-> v] : v \in Values}

BindingNames == <<"e1", "e20", "r0d">>

Rows == UNION {[1..n -> Cells] : n \in 1..MaxCells}

\* The row as a dict: item k is (BindingNames[k], cell)
Items(cells) == [k \in 1..Len(cells) |-> <<BindingNames[k], cells[k]>>]

Bindings == UNION {[1..n -> {Items(r) : r \in Rows}] : n \in 0..MaxRows}

Exceptions == {[exception |-> "timeout"], [exception |-> "connection"], [exception |-> "parse"]}

Documents ==
    {[head |-> "vars"], [head |-> "vars", results |-> [distinct |-> FALSE]]}
    \cup {[head |-> "vars", results |-> [bindings |-> b]] : b \in Bindings}

Responses == Exceptions \cup Documents

SimpleResponses ==
    {[exception |-> "timeout"], [head |-> "vars"]}
    \cup {[head |-> "vars", results |-> [bindings |-> b]] :
             b \in {<<>>} \cup {<<Items(<<[type |-> "uri", value |-> v]>>)>> :
                                  v \in {EntityPrefix \o <<"Q76">>, EntityPrefix \o <<"Q155">>,
                                         <<"Barack Obama">>}}}

\* all(r[b]['value'].startswith(prefix) for b in r): TRUE, FALSE or a KeyError
\* at the first cell without "value" that the short-circuit reaches
RowRaises(r) ==
    \E k \in 1..Len(r) :
        /\ ~Has(r[k][2], "value")
        /\ \A j \in 1..(k - 1) : IsEntity(r[j][2].value)

RowKept(r) == \A k \in 1..Len(r) : IsEntity(r[k][2].value)

\* line 207, one row
StripRow(r) == [k \in 1..Len(r) |-> <<r[k][1], RemoveAll(r[k][2].value, EntityPrefix)>>]

\* line 206
Filter(rows) == Join([k \in 1..Len(rows) |-> IF RowKept(rows[k]) THEN <<rows[k]>> ELSE <<>>])

\* lines 203-211 on a parsed document: the list returned, or the exception raised
Decode(doc) ==
    IF ~Has(doc, "results") \/ ~Has(doc.results, "bindings")
    THEN [raised |-> TRUE, value |-> <<>>]
    ELSE LET rows == doc.results.bindings
         IN  IF Len(rows) > 0
             THEN IF \E k \in 1..Len(rows) : RowRaises(rows[k])
                  THEN [raised |-> TRUE, value |-> <<>>]
                  ELSE LET kept == Filter(rows)
                       IN  [raised |-> FALSE, value |-> [k \in 1..Len(kept) |-> StripRow(kept[k])]]
             ELSE [raised |-> FALSE, value |-> <<>>]

\* lines 198-211: what query_wikidata makes of the endpoint's answer
Outcome(reply) ==
    IF Has(reply, "exception") THEN [raised |-> FALSE, value |-> <<>>] ELSE Decode(reply)

Threads == {1, 2}

\* The graphs of the doctests of graph_to_query, compiled.
DoctestEdge == [left |-> <<0>>, kbID |-> "P35v", type |-> "reverse", rightkbID |-> "Q155",
                right |-> <<5>>]
Query1 == graph_to_query([edgeSet |-> <<DoctestEdge @@ [argmax |-> "time"]>>], TRUE)
Query2 == graph_to_query([edgeSet |-> <<DoctestEdge>>], TRUE)
Queries == {Query1, Query2}

NoReturn == [raised |-> FALSE, value |-> <<>>]

\* One caller, any answer of the endpoint.
InitOne ==
    /\ endpoint \in [{Query1} -> Responses]
    /\ arg = [t \in Threads |-> Query1]
    /\ pcQ = [t \in Threads |-> IF t = 1 THEN "start" ELSE "idle"]

\* Two callers at once.
InitTwo ==
    /\ endpoint \in [Queries -> SimpleResponses]
    /\ arg \in [Threads -> Queries]
    /\ pcQ = [t \in Threads |-> "start"]

InitQ ==
    /\ InitOne \/ InitTwo
    /\ sparql_query = NoText
    /\ response = [t \in Threads |-> [head |-> "none"]]
    /\ ret = [t \in Threads |-> NoReturn]

IdleQ ==
    /\ endpoint = [q \in {} |-> [head |-> "none"]]
    /\ arg = [t \in Threads |-> NoText]
    /\ pcQ = [t \in Threads |-> "idle"]
    /\ sparql_query = NoText
    /\ response = [t \in Threads |-> [head |-> "none"]]
    /\ ret = [t \in Threads |-> NoReturn]

\* line 197: sparql.setQuery(query) on the module's one client
SetQuery(t) ==
    /\ pcQ[t] = "start"
    /\ sparql_query' = arg[t]
    /\ pcQ' = [pcQ EXCEPT ![t] = "set"]
    /\ UNCHANGED <<endpoint, arg, response, ret>>
    /\ UNCHANGED <<varsC, varsM, varsT>>

\* lines 198-211: the client sends the query text it holds; the rest is local
QueryAndDecode(t) ==
    /\ pcQ[t] = "set"
    /\ response' = [response EXCEPT ![t] = endpoint[sparql_query]]
    /\ ret' = [ret EXCEPT ![t] = Outcome(endpoint[sparql_query])]
    /\ pcQ' = [pcQ EXCEPT ![t] = "done"]
    /\ UNCHANGED <<endpoint, arg, sparql_query>>
    /\ UNCHANGED <<varsC, varsM, varsT>>

(***************************************************************************)
(* load_entity_map and map_query_results.  Here a string is the sequence   *)
(* of its characters, so that lower() and split("\t") are computed.        *)
(***************************************************************************)
UpperCase == <<"A", "B", "C", "D", "E", "F", "G", "H", "I", "J", "K", "L", "M",
               "N", "O", "P", "Q", "R", "S", "T", "U", "V", "W", "X", "Y", "Z">>
LowerCase == <<"a", "b", "c", "d", "e", "f", "g", "h", "i", "j", "k", "l", "m",
               "n", "o", "p", "q", "r", "s", "t", "u", "v", "w", "x", "y", "z">>

LowerChar(c) ==
    IF \E k \in 1..Len(UpperCase) : UpperCase[k] = c
    THEN LowerCase[CHOOSE k \in 1..Len(UpperCase) : UpperCase[k] = c]
    ELSE c

\* e.lower()
Lower(str) == [k \in 1..Len(str) |-> LowerChar(str[k])]

Whitespace == {" ", "\t", "\n"}

RECURSIVE LStrip(_)
LStrip(str) == IF str # <<>> /\ Head(str) \in Whitespace THEN LStrip(Tail(str)) ELSE str

RECURSIVE RStrip(_)
RStrip(str) ==
    IF str # <<>> /\ str[Len(str)] \in Whitespace THEN RStrip(SubSeq(str, 1, Len(str) - 1))
    ELSE str

\* l.strip()
Strip(str) == RStrip(LStrip(str))

RECURSIVE SplitFrom(_, _, _)
SplitFrom(str, sep, field) ==
    IF str = <<>> THEN <<field>>
    ELSE IF Head(str) = sep THEN <<field>> \o SplitFrom(Tail(str), sep, <<>>)
    ELSE SplitFrom(Tail(str), sep, Append(field, Head(str)))

\* l.split("\t")
Split(str, sep) == SplitFrom(str, sep, <<>>)

\* The lines a map file is made of: alias, tab, identifier; some are not well formed.
LinePool ==
    { <<"B", "o", "\t", "Q", "1", "\n">>,
      <<"A", "l", "\t", "Q", "1", "\n">>,
      <<"b", "o", "\t", "Q", "1", "\n">>,
      <<"E", "u", "\t", "Q", "2", "\n">>,
      <<"Q", "3", "\t", "\n">> }

Files ==
    {[readable |-> FALSE, lines |-> <<>>]}
    \cup {[readable |-> TRUE, lines |-> l] : l \in UNION {[1..n -> LinePool] : n \in 0..MaxLines}}

Identifiers == {<<"Q", "1">>, <<"Q", "2">>, <<"Q", "3">>}

\* The orders in which a set can be listed.
Orders(S) == {o \in [1..Cardinality(S) -> S] : \A i, j \in 1..Cardinality(S) : i # j => o[i] # o[j]}

EmptyMap == [a \in {} |-> <<>>]

\* lines 217-218: nltk.Index of the set {(t[1], t[0])}; a set is listed in any order
Indexes(lines) ==
    LET return_map == [k \in 1..Len(lines) |-> Split(Strip(lines[k]), "\t")]
        pairs == {<<return_map[k][2], return_map[k][1]>> : k \in 1..Len(lines)}
        keys == {pr[1] : pr \in pairs}
        listed(key) == Orders({pr[2] : pr \in {x \in pairs : x[1] = key}})
    IN  {m \in [keys -> UNION {listed(key) : key \in keys}] : \A key \in keys : m[key] \in listed(key)}

\* lines 215-221: the file cannot be read, or a line has no second column: {}
LoadFails(file) ==
    \/ ~file.readable
    \/ \E k \in 1..Len(file.lines) : Len(Split(Strip(file.lines[k]), "\t")) < 2

load_entity_map(file) == IF LoadFails(file) THEN {EmptyMap} ELSE Indexes(file.lines)

\* A faulty lookup: entity_map.get(a, [])
GetNoDefault(map, a) == IF a \in DOMAIN map THEN map[a] ELSE <<>>

\* entity_map.get(a, [a])
Get(map, a) == IF a \in DOMAIN map THEN map[a] ELSE <<a>>

\* r[question_variable] of a decoded row, a sequence of (variable, value) items
Field(r, name) == r[CHOOSE k \in 1..Len(r) : r[k][1] = name][2]

\* lines 236-238
map_query_results(rows, question_variable) ==
    LET picked == [k \in 1..Len(rows) |-> Field(rows[k], question_variable)]
        aliases(a) == LET es == Get(entity_map, a) IN [k \in 1..Len(es) |-> Lower(es[k])]
    IN  Join([k \in 1..Len(picked) |-> aliases(picked[k])])

AnswerRows ==
    {<<<<"e1", a>>>> : a \in Identifiers} \cup {<<<<"e20", <<"Q", "9">>>>, <<"e1", a>>>> : a \in Identifiers}

InitM ==
    /\ map_file \in Files
    /\ entity_map = EmptyMap
    /\ query_results = <<>>
    /\ answers = <<>>
    /\ pcM = "import"

IdleM ==
    /\ map_file = [readable |-> FALSE, lines |-> <<>>]
    /\ entity_map = EmptyMap
    /\ query_results = <<>>
    /\ answers = <<>>
    /\ pcM = "idle"

\* line 223, at import
LoadEntityMap ==
    /\ pcM = "import"
    /\ entity_map' \in load_entity_map(map_file)
    /\ pcM' = "loaded"
    /\ UNCHANGED <<map_file, query_results, answers>>
    /\ UNCHANGED <<varsC, varsQ, varsT>>

MapQueryResults ==
    /\ pcM = "loaded"
    /\ \E rows \in UNION {[1..n -> AnswerRows] : n \in 0..MaxAnswers} :
          /\ query_results' = rows
          /\ answers' = map_query_results(rows, "e1")
    /\ pcM' = "mapped"
    /\ UNCHANGED <<map_file, entity_map>>
    /\ UNCHANGED <<varsC, varsQ, varsT>>

(***************************************************************************)
(* QAModel.test.  A question's instance is its list of candidate graphs,   *)
(* named by their indices from 0; scores_for_instance gives each a score.  *)
(* query_graph_denotations, label_query_results and the metrics function   *)
(* belong to other modules: the denotation of a graph is empty or the      *)
(* graph's own answer, and the metrics of an evaluation are any of         *)
(* Metrics.                                                                *)
(***************************************************************************)
\* The scores scores_for_instance may give a candidate
ScoreValues == {1, 2}

Instances == UNION {[0..(n - 1) -> ScoreValues] : n \in 0..MaxCandidates}

Batches == UNION {[0..(n - 1) -> Instances] : n \in 0..MaxQuestions}

Size(f) == Cardinality(DOMAIN f)

Reverse(seq) == [k \in 1..Len(seq) |-> seq[Len(seq) + 1 - k]]

\* np.argsort(predictions): an order of the indices along which the scores
\* do not fall; equal scores come in either order
Argsort(predictions) ==
    {o \in Orders(DOMAIN predictions) :
        \A k \in 1..(Len(o) - 1) : predictions[o[k]] <= predictions[o[k + 1]]}

\* lines 67-69: np.argsort(predictions)[::-1]
apply_on_instance(instance) == {Reverse(o) : o \in Argsort(instance)}

\* lines 61-65
apply_on_batch(data_batch) ==
    {p \in [DOMAIN data_batch -> UNION {apply_on_instance(data_batch[i]) \cup {<<>>} : i \in DOMAIN data_batch}] :
        \A i \in DOMAIN data_batch :
            p[i] \in (IF Size(data_batch[i]) > 0 THEN apply_on_instance(data_batch[i]) ELSE {<<>>})}

Denotation(i, index) == <<[question |-> i, graph |-> index]>>

Metrics == {<<0, 0, 0>>, <<1, 1, 1>>}

Zeros == <<0, 0, 0>>

InitT ==
    /\ scores \in Batches
    /\ predicted_indices = <<>>
    /\ qi = 0
    /\ sorted_indices = <<>>
    /\ retrieved_answers = <<>>
    /\ gsel = -1
    /\ asked = <<>>
    /\ evaluated = <<>>
    /\ successes = <<>>
    /\ avg_metrics = [sum |-> Zeros, over |-> 1]
    /\ pcT = "start"

IdleT ==
    /\ scores = <<>>
    /\ predicted_indices = <<>>
    /\ qi = 0
    /\ sorted_indices = <<>>
    /\ retrieved_answers = <<>>
    /\ gsel = -1
    /\ asked = <<>>
    /\ evaluated = <<>>
    /\ successes = <<>>
    /\ avg_metrics = [sum |-> Zeros, over |-> 1]
    /\ pcT = "idle"

\* lines 33-36
ApplyOnBatch ==
    /\ pcT = "start"
    /\ predicted_indices' \in apply_on_batch(scores)
    /\ qi' = 0
    /\ pcT' = "for"
    /\ UNCHANGED <<scores, sorted_indices, retrieved_answers, gsel, asked, evaluated,
                   successes, avg_metrics>>
    /\ UNCHANGED <<varsC, varsQ, varsM>>

\* lines 37-40, a question with candidates
EnterQuestion ==
    /\ pcT = "for"
    /\ qi < Size(predicted_indices)
    /\ predicted_indices[qi] # <<>>
    /\ sorted_indices' = predicted_indices[qi]
    /\ retrieved_answers' = <<>>
    /\ pcT' = "while"
    /\ UNCHANGED <<scores, predicted_indices, qi, gsel, asked, evaluated, successes, avg_metrics>>
    /\ UNCHANGED <<varsC, varsQ, varsM>>

\* lines 37-39, a question without candidates
SkipQuestion ==
    /\ pcT = "for"
    /\ qi < Size(predicted_indices)
    /\ predicted_indices[qi] = <<>>
    /\ sorted_indices' = <<>>
    /\ qi' = qi + 1
    /\ UNCHANGED <<scores, predicted_indices, retrieved_answers, gsel, asked, evaluated,
                   successes, avg_metrics, pcT>>
    /\ UNCHANGED <<varsC, varsQ, varsM>>

\* A faulty pop: sorted_indices.pop()
PopRight(deque) == [index |-> deque[Len(deque)], rest |-> SubSeq(deque, 1, Len(deque) - 1)]

\* line 42: sorted_indices.popleft()
PopLeft(deque) == [index |-> Head(deque), rest |-> Tail(deque)]

\* line 41: while not retrieved_answers and sorted_indices
WhileCondition(answers_, deque) == answers_ = <<>> /\ deque # <<>>

\* lines 41-44, one pass of the loop
QueryNext ==
    /\ pcT = "while"
    /\ WhileCondition(retrieved_answers, sorted_indices)
    /\ LET popped == PopLeft(sorted_indices)
       IN  /\ sorted_indices' = popped.rest
           /\ gsel' = popped.index
           /\ \E found \in {<<>>, Denotation(qi, popped.index)} :
                 /\ retrieved_answers' = found
                 /\ asked' = Append(asked, [question |-> qi, graph |-> popped.index,
                                            answers |-> found])
    /\ UNCHANGED <<scores, predicted_indices, qi, evaluated, successes, avg_metrics, pcT>>
    /\ UNCHANGED <<varsC, varsQ, varsM>>

\* lines 45-49
Evaluate ==
    /\ pcT = "while"
    /\ ~WhileCondition(retrieved_answers, sorted_indices)
    /\ \E metrics \in Metrics :
          /\ evaluated' = Append(evaluated, [question |-> qi, answers |-> retrieved_answers,
                                              metrics |-> metrics])
          /\ successes' = IF metrics[3] # 0
                          THEN Append(successes, <<qi, metrics[3], gsel>>)
                          ELSE successes
          /\ avg_metrics' = [avg_metrics EXCEPT
                               !.sum = [k \in 1..3 |-> avg_metrics.sum[k] + metrics[k]]]
    /\ qi' = qi + 1
    /\ pcT' = "for"
    /\ UNCHANGED <<scores, predicted_indices, sorted_indices, retrieved_answers, gsel, asked>>
    /\ UNCHANGED <<varsC, varsQ, varsM>>

\* lines 50-51: avg_metrics /= len(gold_answers)
Finish ==
    /\ pcT = "for"
    /\ qi = Size(predicted_indices)
    /\ avg_metrics' = [avg_metrics EXCEPT !.over = Size(scores)]
    /\ pcT' = "done"
    /\ UNCHANGED <<scores, predicted_indices, qi, sorted_indices, retrieved_answers, gsel,
                   asked, evaluated, successes>>
    /\ UNCHANGED <<varsC, varsQ, varsM>>

(***************************************************************************)
(* Specifications.                                                         *)
(***************************************************************************)
InitCompile == InitC /\ IdleQ /\ IdleM /\ IdleT
NextCompile == GraphToQuery \/ GetFreeVariables
SpecCompile == InitCompile /\ [][NextCompile]_vars

InitQuery == IdleC /\ InitQ /\ IdleM /\ IdleT
NextQuery == \E t \in Threads : SetQuery(t) \/ QueryAndDecode(t)
SpecQuery == InitQuery /\ [][NextQuery]_vars

InitMap == IdleC /\ IdleQ /\ InitM /\ IdleT
NextMap == LoadEntityMap \/ MapQueryResults
SpecMap == InitMap /\ [][NextMap]_vars

InitTest == IdleC /\ IdleQ /\ IdleM /\ InitT
NextTest == ApplyOnBatch \/ EnterQuestion \/ SkipQuestion \/ QueryNext \/ Evaluate \/ Finish
SpecTest == InitTest /\ [][NextTest]_vars /\ WF_vars(NextTest)

Init == InitCompile \/ InitQuery \/ InitMap \/ InitTest
Next == NextCompile \/ NextQuery \/ NextMap \/ NextTest
Spec == Init /\ [][Next]_vars

(***************************************************************************)
(* Properties of graph_to_query and get_free_variables.                    *)
(***************************************************************************)
ToSet(seq) == {seq[k] : k \in 1..Len(seq)}

\* part occurs in text at position p
OccursAt(text, part, p) == p >= 1 /\ p + Len(part) - 1 <= Len(text) /\ SubSeq(text, p, p + Len(part) - 1) = part

Occurs(text, part) == \E p \in 1..Len(text) : OccursAt(text, part, p)

Count(text, part) == Cardinality({p \in 1..Len(text) : OccursAt(text, part, p)})

EndsWith(text, part) == OccursAt(text, part, Len(text) - Len(part) + 1)

\* The variables of a text
VariablesOf(text) == {text[k] : k \in {p \in 1..Len(text) : IsVar(text[p])}}

\* The projection list of a query: what stands between SELECT DISTINCT and WHERE
Projection(q) ==
    LET from == CHOOSE p \in 1..Len(q) : OccursAt(q, <<Lit("SELECT"), Lit("DISTINCT")>>, p)
        to == CHOOSE p \in 1..Len(q) : q[p] = Lit("WHERE") /\ \A r \in 1..(p - 1) : q[r] # Lit("WHERE")
    IN  SubSeq(q, from + 2, to - 1)

Compiled == pcC \in {"compiled"}

Edge(k) == g.edgeSet[k]

\* C1: with include_relations and include_entities set and the same question-
\* variable flag, get_free_variables returns exactly the set of variables that
\* graph_to_query puts in the SELECT DISTINCT projection list of the same graph.
C1_FreeVariablesAreProjection ==
    (/\ pcC = "done"
     /\ free_flags.include_relations /\ free_flags.include_entities
     /\ free_flags.include_question_variable = return_var_values)
    => ToSet(free_variables) = ToSet(Projection(query))

\* C2: in a graph of two or more edges no variable other than ?e1 occurs in the
\* text emitted for two distinct edges.
C2_NoVariableSharedBetweenEdges ==
    (Compiled /\ Len(passes) >= 2)
    => \A i, j \in 1..Len(passes) :
          i # j => (VariablesOf(passes[i].label \o passes[i].relation)
                    \cap VariablesOf(passes[j].label \o passes[j].relation)) \subseteq {vE1}

\* The order-by terms the graph asks for: one per argmax/argmin edge, in edge order.
ExpectedTerms ==
    Join([k \in 1..Len(g.edgeSet) |->
            IF Has(Edge(k), "argmax") THEN <<Lit("DESC("), vN \o Str(k - 1), Lit(")")>>
            ELSE IF Has(Edge(k), "argmin") THEN <<Lit("ASC("), vN \o Str(k - 1), Lit(")")>>
            ELSE <<>>])

\* C5: the query ends with exactly one trailing clause after the closing brace:
\* ORDER BY <one term per argmax/argmin edge, in edge order> LIMIT 1 when some edge
\* carries argmax or argmin, and otherwise LIMIT 1000 with no ORDER BY at all.
C5_TrailingClause ==
    Compiled =>
        /\ Count(query, <<Lit("LIMIT")>>) = 1
        /\ IF \E k \in 1..Len(g.edgeSet) : HasArg(Edge(k))
           THEN /\ EndsWith(query, <<Lit("}"), Lit("ORDER"), Lit("BY")>> \o ExpectedTerms
                                    \o <<Lit("LIMIT"), Lit("1")>>)
                /\ Count(query, <<Lit("ORDER")>>) = 1
           ELSE /\ EndsWith(query, <<Lit("}"), Lit("LIMIT"), Lit("1000")>>)
                /\ Count(query, <<Lit("ORDER")>>) = 0
                /\ Count(query, <<Lit("BY")>>) = 0

\* A query with two ordered edges, argmin before argmax, has been compiled.
C5_Witness ==
    /\ Compiled
    /\ Len(g.edgeSet) = 2
    /\ Has(Edge(1), "argmin") /\ Has(Edge(2), "argmax")
    /\ ~Has(Edge(1), "type") /\ Has(Edge(2), "hopUp")

\* The directional shapes of the GRAPH block that starts at p in the fragment of edge i
IsDirect(frag, p, i) ==
    OccursAt(frag, <<vE1, vP \o Str(i), vM \o Str(i), Lit("."), vM \o Str(i)>>, p + 3)

IsReverse(frag, p, i) ==
    /\ frag[p + 3] \notin {vE1, vM \o Str(i)}
    /\ \E q \in {p + 4, p + 9} :
          /\ OccursAt(frag, <<vP \o Str(i), vM \o Str(i), Lit("."), vM \o Str(i)>>, q)
          /\ OccursAt(frag, <<vE1, Lit(".")>>, q + 5)

IsVStructure(frag, p, i) ==
    /\ OccursAt(frag, <<vM \o Str(i), vP \o Str(i)>>, p + 3)
    /\ \E q \in {p + 6, p + 11} :
          /\ OccursAt(frag, <<Lit("."), vM \o Str(i)>>, q)
          /\ OccursAt(frag, <<vE1, Lit(".")>>, q + 3)

ShapeAt(frag, p, i) ==
    {t \in ToSet(RelationTypes) :
        \/ t = "direct" /\ IsDirect(frag, p, i)
        \/ t = "reverse" /\ IsReverse(frag, p, i)
        \/ t = "v-structure" /\ IsVStructure(frag, p, i)}

\* The shapes of the GRAPH blocks of a fragment, in the order of the blocks
Blocks(frag) == {p \in 1..Len(frag) : OccursAt(frag, GraphStatements, p)}

\* C8: an edge with a type contributes exactly one directional GRAPH block, of
\* the shape of its type, and no UNION; an edge without a type contributes the
\* three blocks direct, reverse, v-structure joined by two UNIONs; whatever the
\* edge's other fields.
C8_ShapeCoverage ==
    Compiled =>
        \A k \in 1..Len(passes) :
            LET frag == passes[k].relation
                unions == Count(frag, <<Lit("UNION")>>)
            IN  IF Has(Edge(k), "type")
                THEN /\ Cardinality(Blocks(frag)) = 1
                     /\ unions = 0
                     /\ \A p \in Blocks(frag) : ShapeAt(frag, p, k - 1) = {Edge(k).type}
                ELSE /\ Cardinality(Blocks(frag)) = 3
                     /\ unions = 2
                     /\ \A t \in ToSet(RelationTypes) :
                           \E p \in Blocks(frag) : ShapeAt(frag, p, k - 1) = {t}

\* A typed edge with a bound relation, a hop and an order, and an untyped edge
\* with a free relation and a label, have been compiled together.
C8_Witness ==
    /\ Compiled
    /\ Len(g.edgeSet) = 2
    /\ Has(Edge(1), "type") /\ Edge(1).type = "reverse" /\ Has(Edge(1), "kbID")
    /\ Has(Edge(1), "hopUp") /\ Has(Edge(1), "argmax")
    /\ ~Has(Edge(2), "type") /\ ~Has(Edge(2), "kbID") /\ Has(Edge(2), "right")

\* The time sub-pattern of edge i: ?m<i> ?a<i> [base:time ?n<i>].
TimePattern(i) == <<vM \o Str(i), vA \o Str(i), Lit("[base:time"), vN \o Str(i), Lit("].")>>

\* C9: the fragment of every edge with argmax or argmin holds the time sub-
\* pattern that binds ?n<i> from ?m<i>; the fragment of every other edge holds
\* neither a time sub-pattern nor a %restriction% slot.
C9_OrderVariableIsBound ==
    Compiled =>
        \A k \in 1..Len(passes) :
            LET frag == passes[k].relation
            IN  IF HasArg(Edge(k))
                THEN Occurs(frag, TimePattern(k - 1))
                ELSE /\ ~Occurs(frag, <<Lit("[base:time")>>)
                     /\ ~Occurs(frag, <<Lit("%restriction%")>>)

(***************************************************************************)
(* Properties of query_wikidata.                                           *)
(***************************************************************************)
Returned(t) == pcQ[t] = "done"

\* A document with results, bindings and a value in every cell
WellFormed(doc) ==
    /\ Has(doc, "results") /\ Has(doc.results, "bindings")
    /\ \A k \in 1..Len(doc.results.bindings) :
          \A c \in 1..Len(doc.results.bindings[k]) : Has(doc.results.bindings[k][c][2], "value")

\* C3: query_wikidata never raises: whatever the endpoint does (an exception,
\* or a document without results, bindings or a cell's value), the call returns
\* a list, and the list is empty when the call failed.
C3_NeverRaises ==
    \A t \in Threads :
        Returned(t) =>
            /\ ~ret[t].raised
            /\ (Has(response[t], "exception") \/ ~WellFormed(response[t])) => ret[t].value = <<>>

\* C4: of two calls running at once, each returns the decoded bindings of the
\* endpoint's answer to the query text that call was given.
C4_EachCallAnswersItsOwnQuery ==
    \A t \in Threads :
        (Returned(t) /\ WellFormed(response[t]) /\ WellFormed(endpoint[arg[t]]))
        => ret[t].value = Decode(endpoint[arg[t]]).value

\* The value without its leading entity prefix
Bare(value) == SubSeq(value, Len(EntityPrefix) + 1, Len(value))

\* The positions of the rows all of whose cells are entity references
EntityRows(rows) ==
    {k \in 1..Len(rows) : \A c \in 1..Len(rows[k]) : IsEntity(rows[k][c][2].value)}

\* The k-th smallest element of a set of numbers
Nth(S, k) == CHOOSE x \in S : Cardinality({y \in S : y < x}) = k - 1

\* C6: for a well-formed answer of the endpoint, query_wikidata returns the rows
\* all of whose cells start with the entity prefix, in their order, each cell
\* with that prefix taken off its front; no returned cell starts with the prefix.
C6_EntityRowsWithoutPrefix ==
    \A t \in Threads :
        (Returned(t) /\ WellFormed(response[t])) =>
            LET rows == response[t].results.bindings
                kept == EntityRows(rows)
                out == ret[t].value
            IN  /\ ~ret[t].raised
                /\ Len(out) = Cardinality(kept)
                /\ \A k \in 1..Len(out) :
                      LET row == rows[Nth(kept, k)]
                      IN  /\ Len(out[k]) = Len(row)
                          /\ \A c \in 1..Len(row) :
                                /\ out[k][c] = <<row[c][1], Bare(row[c][2].value)>>
                                /\ ~IsEntity(out[k][c][2])

(***************************************************************************)
(* Properties of map_query_results.                                        *)
(***************************************************************************)
IsLowerCased(str) == \A k \in 1..Len(str) : str[k] \notin ToSet(UpperCase)

\* The identifier a row binds to the question variable e1
QuestionValue(row) == row[CHOOSE k \in 1..Len(row) : row[k][1] = "e1"][2]

RECURSIVE AliasesInRowOrder(_, _)
\* out is, row after row, the lower-cased aliases of the row's identifier, or
\* the lower-cased identifier when the table has no entry for it
AliasesInRowOrder(out, rows) ==
    IF rows = <<>> THEN out = <<>>
    ELSE LET a == QuestionValue(Head(rows))
             known == a \in DOMAIN entity_map
             n == IF known THEN Len(entity_map[a]) ELSE 1
         IN  /\ n >= 1
             /\ Len(out) >= n
             /\ \A k \in 1..n :
                   /\ out[k] = Lower(IF known THEN entity_map[a][k] ELSE a)
                   /\ IsLowerCased(out[k])
             /\ AliasesInRowOrder(SubSeq(out, n + 1, Len(out)), Tail(rows))

\* C7: map_query_results returns, in row order, the lower-cased aliases of each
\* row's question-variable identifier, or the lower-cased identifier itself when
\* the table has no entry; so the output is never shorter than the input, and
\* with an empty table it is the lower-cased input, one for one.
C7_AliasesOrIdentifier ==
    pcM = "mapped" =>
        /\ AliasesInRowOrder(answers, query_results)
        /\ Len(answers) >= Len(query_results)
        /\ entity_map = EmptyMap =>
              /\ Len(answers) = Len(query_results)
              /\ \A k \in 1..Len(answers) : answers[k] = Lower(QuestionValue(query_results[k]))

\* An identifier with two aliases and one without any have been mapped.
C7_Witness ==
    /\ pcM = "mapped"
    /\ Len(query_results) = 2
    /\ QuestionValue(query_results[1]) \in DOMAIN entity_map
    /\ Len(entity_map[QuestionValue(query_results[1])]) = 2
    /\ QuestionValue(query_results[2]) \notin DOMAIN entity_map
    /\ Len(answers) = 3

(***************************************************************************)
(* Properties of QAModel.test.                                             *)
(***************************************************************************)
\* The queries sent for question i, in the order they were sent
AskedFor(i) == LET of(e) == e.question = i IN SelectSeq(asked, of)

EvaluatedFor(i) == LET of(e) == e.question = i IN SelectSeq(evaluated, of)

SuccessesFor(i) == LET of(e) == e[1] = i IN SelectSeq(successes, of)

RECURSIVE SumOf(_, _)
SumOf(evals, c) == IF evals = <<>> THEN 0 ELSE Head(evals).metrics[c] + SumOf(Tail(evals), c)

Ranked(i) == predicted_indices[i]

\* What holds of every question at every moment of the run of test
TestLoopInvariant ==
    pcT \notin {"idle", "start"} =>
        /\ \A i \in DOMAIN scores :
              LET sent == AskedFor(i)
                  judged == EvaluatedFor(i)
              IN  \* the ranking lists every candidate once, best score first
                  /\ Len(Ranked(i)) = Size(scores[i])
                  /\ ToSet(Ranked(i)) = DOMAIN scores[i]
                  /\ \A k \in 1..(Len(Ranked(i)) - 1) :
                        scores[i][Ranked(i)[k]] >= scores[i][Ranked(i)[k + 1]]
                  \* candidates are queried in ranked order, each at most once
                  /\ Len(sent) <= Len(Ranked(i))
                  /\ \A k \in 1..Len(sent) : sent[k].graph = Ranked(i)[k]
                  \* no query follows one that returned answers
                  /\ \A k \in 1..(Len(sent) - 1) : sent[k].answers = <<>>
                  \* what is evaluated is what the last query returned, and the
                  \* querying had stopped for one of the two reasons
                  /\ Len(judged) <= 1
                  /\ \A k \in 1..Len(judged) :
                        /\ sent # <<>>
                        /\ judged[k].answers = sent[Len(sent)].answers
                        /\ sent[Len(sent)].answers # <<>> \/ Len(sent) = Len(Ranked(i))
                  /\ \A k \in 1..Len(SuccessesFor(i)) :
                        /\ judged # <<>>
                        /\ SuccessesFor(i)[k][3] = sent[Len(sent)].graph
                  \* a question without candidates is neither queried nor evaluated
                  /\ Ranked(i) = <<>> => (sent = <<>> /\ judged = <<>>)
                  /\ (pcT = "done" /\ Ranked(i) # <<>>) => Len(judged) = 1
        /\ \A c \in 1..3 : avg_metrics.sum[c] = SumOf(evaluated, c)

\* C10: in test, the candidates of a question are queried in ranked order, best
\* score first, each at most once; querying stops at the first non-empty
\* denotation or when the ranking is exhausted; the answers evaluated and the
\* graph recorded are those of the last query; a question with an empty ranking
\* is not queried and adds nothing to the metrics; and the run terminates.
C10_RankedQueriesUntilAnswer == []TestLoopInvariant /\ <>(pcT = "done")

\* The run has ended after a question whose best candidate had no denotation
\* and whose second had one, recorded as a success, and a question without
\* candidates.
C10_Witness ==
    /\ pcT = "done"
    /\ \E i \in DOMAIN scores :
          /\ Len(AskedFor(i)) = 2
          /\ AskedFor(i)[1].answers = <<>> /\ AskedFor(i)[2].answers # <<>>
          /\ scores[i][AskedFor(i)[1].graph] > scores[i][AskedFor(i)[2].graph]
          /\ SuccessesFor(i) # <<>>
    /\ \E i \in DOMAIN scores : Ranked(i) = <<>>

====
